---- MODULE Spec2Model ----
(***************************************************************************)
(* Model of the Landsat-8 RGB pipeline of rasterio_plotting.ipynb:         *)
(*   get_bands -> create_rgb_stack -> write_rgb_image                      *)
(* over a cache directory (data_path), the notebook's bands dict and the   *)
(* output file data_path/rgb.tif.  An exception halts the current run of   *)
(* the notebook; the notebook can then be run again from get_bands.        *)
(* The plot_* cells only read bands and are left out.                      *)
(***************************************************************************)
EXTENDS Integers, Sequences, FiniteSets, TLC

VARIABLES
    cache,      \* data_path/<role>.<file_format>: "none", "garbage" or the scene of the raster
    outFile,    \* data_path/rgb.tif
    bands,      \* the notebook's landsat_bands dict
    pc,         \* position of the current notebook run
    runs,       \* number of get_bands calls made so far
    err,        \* exception that ended the last call, "none" if it returned
    gbObs,      \* what the last get_bands call did (history)
    stObs,      \* what the last create_rgb_stack call did (history)
    wrObs,      \* what the last write_rgb_image call did (history)
    netLog      \* per role: requests made and responses stored over all calls (history)

vars == <<cache, outFile, bands, pc, runs, err, gbObs, stObs, wrObs, netLog>>

-----------------------------------------------------------------------------
(* Bounds *)

\* Number of notebook runs (get_bands calls) explored.
MaxRuns == 3
\* Pixels per band in the inputs of SpecNorm.
NPix == 3

-----------------------------------------------------------------------------
(* Small helpers *)

Min(a, b) == IF a <= b THEN a ELSE b
Max(a, b) == IF a >= b THEN a ELSE b

\* dict.update / dict item assignment: entries of g override those of f.
Update(f, g) == [k \in (DOMAIN f) \cup (DOMAIN g) |-> IF k \in DOMAIN g THEN g[k] ELSE f[k]]

NoDict == [k \in {} |-> 0]

-----------------------------------------------------------------------------
(* The remote store: two scenes of different shape *)

Scenes == {"A", "B"}

\* Iteration order of band_urls.items(): insertion order of landsat_url_suffixes.
RoleOrder == <<"red", "green", "blue", "qa">>
Roles == {"red", "green", "blue", "qa"}

SceneShape(s) == IF s = "A" THEN <<2, 2>> ELSE <<1, 3>>

ScenePix(s, r) ==
    IF s = "A"
    THEN CASE r = "red"   -> <<0, 0, 100, 200>>
           [] r = "green" -> <<10, 20, 30, 65535>>
           [] r = "blue"  -> <<5, 5, 5, 5>>
           [] OTHER       -> <<0, 0, 0, 1>>
    ELSE CASE r = "red"   -> <<50, 150, 250>>
           [] r = "green" -> <<0, 300, 600>>
           [] r = "blue"  -> <<9, 8, 7>>
           [] OTHER       -> <<1, 0, 0>>

\* src.read(1) of the raster stored for role r of scene s.
SceneBand(s, r) == [shape |-> SceneShape(s), pix |-> ScenePix(s, r)]

\* src.profile of a single-band 16-bit raster of scene s (no photometric entry).
SceneProfile(s) ==
    [driver |-> "GTiff", dtype |-> "uint16", count |-> 1,
     height |-> SceneShape(s)[1], width |-> SceneShape(s)[2],
     transform |-> <<"transform", s>>, crs |-> <<"crs", s>>]

-----------------------------------------------------------------------------
(* get_bands *)

\* Inputs of a get_bands call.
NetOutcomes == {"ok", "unreachable", "nonraster"}

\* What the source answers for each role if asked. The first failure aborts the
\* call, so plans with at most one failing role cover every outcome.
NetPlans ==
    {[r \in Roles |-> "ok"]} \cup
    {[r \in Roles |-> IF r = bad THEN kind ELSE "ok"] :
        bad \in Roles, kind \in NetOutcomes \ {"ok"}}

\* band_urls with or without the optional 'qa' entry, in iteration order.
UrlKeys(withQa) == IF withQa THEN RoleOrder ELSE SubSeq(RoleOrder, 1, 3)

\* os.path.exists(band_path)
\* Faulty variant: the existence test never finds the file.
CacheHitAlways(c, k) == FALSE
CacheHit(c, k) == c[k] # "none"

\* What open(band_path, 'wb').write(r.content) leaves in the file: requests.get
\* returns a response for any status, and its body is stored unchecked.
StoredContent(s, outcome) == IF outcome = "ok" THEN s ELSE "garbage"

GbStart(c) ==
    [cache |-> c, bands |-> NoDict, err |-> "none", failedRole |-> "none",
     reqs |-> [r \in Roles |-> 0], resp |-> [r \in Roles |-> 0],
     origin |-> NoDict, done |-> {}]

\* rasterio.open(band_path); bands[k] = src.read(1); first profile kept.
GbRead(st, k) ==
    IF st.cache[k] = "garbage"
    THEN [st EXCEPT !.err = "RasterioIOError", !.failedRole = k]
    ELSE LET sc == st.cache[k]
             b1 == Update(st.bands, (k :> SceneBand(sc, k)))
             b2 == IF "profile" \notin DOMAIN b1
                   THEN Update(b1, ("profile" :> SceneProfile(sc)))
                   ELSE b1
         IN  [st EXCEPT !.bands = b2, !.origin = Update(st.origin, (k :> sc))]

\* One iteration of `for k, v in band_urls.items()`; v is scene s's band k.
GbStep(st, k, s, net) ==
    IF ~CacheHit(st.cache, k)
    THEN LET asked == [st EXCEPT !.reqs[k] = @ + 1]
         IN  IF net[k] = "unreachable"
             THEN [asked EXCEPT !.err = "ConnectionError", !.failedRole = k]
             ELSE GbRead([asked EXCEPT !.cache[k] = StoredContent(s, net[k]),
                                       !.resp[k] = @ + 1], k)
    ELSE GbRead(st, k)

RECURSIVE GbLoop(_, _, _, _, _)
GbLoop(st, keys, i, s, net) ==
    IF i > Len(keys) \/ st.err # "none"
    THEN st
    ELSE GbLoop(GbStep([st EXCEPT !.done = @ \cup {keys[i]}], keys[i], s, net),
                keys, i + 1, s, net)

NoStack == [called |-> FALSE, arraysRead |-> FALSE, normalized |-> 0,
            cutsComputed |-> 0, method |-> "none", percentile |-> 0]
NoWrite == [called |-> FALSE, opened |-> FALSE, bandsWritten |-> 0]

get_bands(s, withQa, net) ==
    /\ runs < MaxRuns
    /\ LET keys == UrlKeys(withQa)
           fin  == GbLoop(GbStart(cache), keys, 1, s, net)
       IN  /\ cache' = fin.cache
           /\ err' = fin.err
           /\ IF fin.err = "none"
              THEN bands' = fin.bands /\ pc' = "loaded"
              ELSE bands' = bands /\ pc' = "halted"
           /\ gbObs' = [called |-> TRUE, urlScene |-> s,
                        keys |-> {keys[i] : i \in 1..Len(keys)}, done |-> fin.done,
                        pre |-> cache, reqs |-> fin.reqs, resp |-> fin.resp,
                        origin |-> fin.origin, failedRole |-> fin.failedRole,
                        net |-> IF fin.failedRole = "none" THEN "ok"
                                ELSE IF fin.reqs[fin.failedRole] = 0 THEN "cached"
                                ELSE net[fin.failedRole]]
           /\ netLog' = [r \in Roles |->
                           [reqs |-> netLog[r].reqs + fin.reqs[r],
                            resp |-> netLog[r].resp + fin.resp[r]]]
    /\ runs' = runs + 1
    /\ stObs' = NoStack
    /\ wrObs' = NoWrite
    /\ UNCHANGED outFile


-----------------------------------------------------------------------------
(* create_rgb_stack: percentile rescaling *)

\* Cut points are kept as exact rationals scaled by 100 (percentile is an int).

RECURSIVE Insert(_, _)
Insert(x, s) ==
    IF s = <<>> THEN <<x>>
    ELSE IF x <= Head(s) THEN <<x>> \o s
    ELSE <<Head(s)>> \o Insert(x, Tail(s))

RECURSIVE SortPixels(_)
SortPixels(s) == IF s = <<>> THEN <<>> ELSE Insert(Head(s), SortPixels(Tail(s)))

\* np.ma.filled(np.ma.masked_where(qa == 1, band).astype('float'), np.nan),
\* as seen by nanpercentile: the pixels that are not NaN.
RECURSIVE UnmaskedFrom(_, _, _)
UnmaskedFrom(pix, qa, i) ==
    IF i > Len(pix) THEN <<>>
    ELSE (IF qa[i] = 1 THEN <<>> ELSE <<pix[i]>>) \o UnmaskedFrom(pix, qa, i + 1)

\* Faulty variant: the fill mask is ignored.
UnmaskedAll(pix, qa) == pix
Unmasked(pix, qa) == UnmaskedFrom(pix, qa, 1)

\* np.nanpercentile(a, q), linear interpolation, times 100; a is not empty.
Percentile100(a, q) ==
    LET srt == SortPixels(a)
        pos == (Len(srt) - 1) * q
        lo  == pos \div 100
        fr  == pos % 100
    IN  IF fr = 0 THEN 100 * srt[lo + 1]
        ELSE 100 * srt[lo + 1] + fr * (srt[lo + 2] - srt[lo + 1])

\* The statistics input of one band: masked by qa when bands has a 'qa' entry
\* (try branch), the band itself otherwise (except KeyError branch).
StatPixels(bs, band) ==
    IF "qa" \in DOMAIN bs THEN Unmasked(band.pix, bs["qa"].pix) ELSE band.pix

\* The cut points are defined when some pixel is unmasked; an all-NaN input
\* makes nanpercentile return NaN.
CutsDefined(bs, band) == StatPixels(bs, band) # <<>>

CutLow(bs, band, p) == Percentile100(StatPixels(bs, band), p)
CutHigh(bs, band, p) == Percentile100(StatPixels(bs, band), 100 - p)

\* Outcomes of casting NaN (0/0, or NaN cut points) to an unsigned integer:
\* not defined by numpy, the same for every pixel of the band.
DegenerateOut == {0, 255}

\* exposure.rescale_intensity(band, in_range=(vmin, vmax), out_range='uint8')
\* followed by astype(np.uint8), for one pixel x: clip to [vmin, vmax], map
\* linearly to [0, 255], truncate.
RescalePixel(x, vmin100, vmax100, dg) ==
    LET c100 == Min(Max(100 * x, vmin100), vmax100)
        num  == 255 * (c100 - vmin100)
        den  == vmax100 - vmin100
    IN  IF den = 0 THEN dg
        ELSE IF den < 0 THEN (0 - num) \div (0 - den)
        ELSE num \div den

\* The band that is rescaled: the original band, not the masked copy.
Rescaling(bs, band, p, dg) ==
    LET vmin100 == CutLow(bs, band, p)
        vmax100 == CutHigh(bs, band, p)
    IN  [shape |-> band.shape,
         pix |-> IF CutsDefined(bs, band)
                 THEN [i \in 1..Len(band.pix) |->
                         RescalePixel(band.pix[i], vmin100, vmax100, dg)]
                 ELSE [i \in 1..Len(band.pix) |-> dg]]

-----------------------------------------------------------------------------
(* create_rgb_stack: histogram equalization *)

\* exposure.equalize_adapthist is library code outside the repository; it is
\* stood in for by plain histogram equalization of the whole band (the fill
\* mask is not consulted), then scaled by 255 and truncated.
CountLeq(pix, x) == Cardinality({i \in 1..Len(pix) : pix[i] <= x})

Clahe(band) ==
    [shape |-> band.shape,
     pix |-> [i \in 1..Len(band.pix) |->
                (255 * CountLeq(band.pix, band.pix[i])) \div Len(band.pix)]]

-----------------------------------------------------------------------------
(* create_rgb_stack *)

Methods == {"rescaling", "clahe", "bogus"}
PercentileInputs == {0, 2, 25, 50, 60, 101}
\* def create_rgb_stack(bands, method='rescaling', percentile=2, clip_limit=0.03)
DefaultPercentile == 2

\* for band in [bands['red'], bands['green'], bands['blue']]
BandList(bs) == <<bs["red"], bs["green"], bs["blue"]>>

\* The body of the loop for one band: the error it raises ("none" if none) and
\* modified_band.
NormStep(bs, band, method, p, dg) ==
    IF method = "rescaling"
    THEN IF "qa" \in DOMAIN bs /\ bs["qa"].shape # band.shape
         THEN [err |-> "IndexError", cut |-> FALSE, out |-> band]
         ELSE IF p < 0 \/ p > 100
         THEN [err |-> "ValueError:percentile", cut |-> FALSE, out |-> band]
         ELSE [err |-> "none", cut |-> TRUE, out |-> Rescaling(bs, band, p, dg)]
    ELSE IF method = "clahe"
    THEN [err |-> "none", cut |-> FALSE, out |-> Clahe(band)]
    ELSE [err |-> "UnboundLocalError", cut |-> FALSE, out |-> band]

RECURSIVE NormLoop(_, _, _, _, _, _, _)
NormLoop(acc, bs, list, i, method, p, dg) ==
    IF i > Len(list) \/ acc.err # "none"
    THEN acc
    ELSE LET r == NormStep(bs, list[i], method, p, dg[i])
         IN  NormLoop([err |-> r.err,
                       outs |-> IF r.err = "none" THEN Append(acc.outs, r.out)
                                ELSE acc.outs,
                       cuts |-> acc.cuts + (IF r.cut THEN 1 ELSE 0)],
                      bs, list, i + 1, method, p, dg)

\* np.stack raises ValueError unless all arrays have the same shape.
\* Faulty variant: shapes are not compared.
StackFailsNever(outs) == FALSE
StackFails(outs) == \E i, j \in 1..Len(outs) : outs[i].shape # outs[j].shape

\* np.stack(modified_bands): channel i is modified_bands[i], 0-based.
Stack(outs) == [i \in 0..(Len(outs) - 1) |-> outs[i + 1]]

create_rgb_stack(method, p, dg) ==
    /\ pc = "loaded"
    /\ LET list == BandList(bands)
           fin  == NormLoop([err |-> "none", outs |-> <<>>, cuts |-> 0],
                            bands, list, 1, method, p, dg)
           e    == IF fin.err # "none" THEN fin.err
                   ELSE IF StackFails(fin.outs) THEN "ValueError:shape"
                   ELSE "none"
       IN  /\ err' = e
           /\ IF e = "none"
              THEN bands' = Update(bands, ("rgb" :> Stack(fin.outs))) /\ pc' = "stacked"
              ELSE bands' = bands /\ pc' = "halted"
           /\ stObs' = [called |-> TRUE, arraysRead |-> TRUE,
                        normalized |-> Len(fin.outs), cutsComputed |-> fin.cuts,
                        method |-> method, percentile |-> p]
    /\ UNCHANGED <<cache, outFile, runs, gbObs, wrObs, netLog>>

-----------------------------------------------------------------------------
(* write_rgb_image *)

\* profile.update(driver='GTiff', dtype=rasterio.uint8, count=3, photometric='RGB')
WriteProfile(profile) ==
    Update(profile, [driver |-> "GTiff", dtype |-> "uint8", count |-> 3,
                     photometric |-> "RGB"])

\* dst.write_band(i + 1, band) for the i-th channel of enumerate(bands['rgb'])
\* Faulty variant: 0-based band position.
BandPositionSame(i) == i
BandPosition(i) == i + 1

\* The bands of the destination after the first n channels were written.
Written(rgb, n) ==
    [pos \in {BandPosition(i) : i \in 0..(n - 1)} |->
        rgb[CHOOSE i \in 0..(n - 1) : BandPosition(i) = pos]]

\* openFails: rasterio.open(rgb_path, 'w') raises (destination unwritable).
\* failBand: the write_band call that raises, 0 if none does.
write_rgb_image(openFails, failBand) ==
    /\ pc = "stacked"
    /\ LET profile == WriteProfile(bands["profile"])
           n == IF failBand = 0 THEN 3 ELSE failBand - 1
       IN  /\ bands' = Update(bands, ("profile" :> profile))
           /\ IF openFails
              THEN /\ outFile' = outFile
                   /\ wrObs' = [called |-> TRUE, opened |-> FALSE, bandsWritten |-> 0]
                   /\ err' = "RasterioIOError"
                   /\ pc' = "halted"
              ELSE /\ outFile' = [exists |-> TRUE, profile |-> profile,
                                  data |-> Written(bands["rgb"], n)]
                   /\ wrObs' = [called |-> TRUE, opened |-> TRUE, bandsWritten |-> n]
                   /\ err' = IF failBand = 0 THEN "none" ELSE "WriteError"
                   /\ pc' = IF failBand = 0 THEN "written" ELSE "halted"
    /\ UNCHANGED <<cache, runs, gbObs, stObs, netLog>>

-----------------------------------------------------------------------------
(* The notebook *)

\* The cache directories earlier runs of the notebook can leave behind: roles
\* are fetched in RoleOrder and a call aborts at the first role that cannot be
\* fetched or read, so a file exists only after readable rasters of all the
\* roles before it.
ReachableCaches ==
    {c \in [Roles -> {"none", "garbage"} \cup Scenes] :
        \A i \in 1..Len(RoleOrder) :
            c[RoleOrder[i]] # "none" =>
                \A j \in 1..(i - 1) : c[RoleOrder[j]] \in Scenes}

NoLoad == [called |-> FALSE, urlScene |-> "none", keys |-> {}, done |-> {},
           pre |-> [r \in Roles |-> "none"],
           reqs |-> [r \in Roles |-> 0], resp |-> [r \in Roles |-> 0],
           origin |-> NoDict, failedRole |-> "none", net |-> "ok"]

InitWith(c, bs, at) ==
    /\ cache = c
    /\ outFile = [exists |-> FALSE, profile |-> NoDict, data |-> NoDict]
    /\ bands = bs
    /\ pc = at
    /\ runs = 0
    /\ err = "none"
    /\ gbObs = NoLoad
    /\ stObs = NoStack
    /\ wrObs = NoWrite
    /\ netLog = [r \in Roles |-> [reqs |-> 0, resp |-> 0]]

(* One run of the notebook over any cache directory earlier runs left. *)

Init == \E c \in ReachableCaches : InitWith(c, NoDict, "idle")

Next ==
    \/ \E s \in Scenes, withQa \in BOOLEAN, net \in NetPlans :
          /\ pc = "idle"
          /\ get_bands(s, withQa, net)
    \/ \E method \in Methods, p \in PercentileInputs, dg \in [1..3 -> DegenerateOut] :
          /\ method # "rescaling" => p = DefaultPercentile
          /\ create_rgb_stack(method, p, dg)
    \/ \E openFails \in BOOLEAN, failBand \in 0..3 :
          write_rgb_image(openFails, failBand)

Spec == Init /\ [][Next]_vars

(* Repeated get_bands calls over one data_path, starting with no directory. *)

InitLoad == InitWith([r \in Roles |-> "none"], NoDict, "idle")

NextLoad ==
    \E s \in Scenes, withQa \in BOOLEAN, net \in NetPlans :
        get_bands(s, withQa, net)

SpecLoad == InitLoad /\ [][NextLoad]_vars

\* Every cache directory get_bands leaves is one of ReachableCaches.
CacheReachable == cache \in ReachableCaches

(* create_rgb_stack on any bands dict of one shape: pixel values from         *)
(* PixelValues, an optional qa band of 0 (clear) and 1 (fill).               *)

PixelValues == {0, 100, 65535}

NormShape == <<1, NPix>>

NormBand(pix) == [shape |-> NormShape, pix |-> pix]

\* Green and blue inputs: a ramp and a constant band.
RampBand == NormBand([i \in 1..NPix |-> 10 * i])
FlatBand == NormBand([i \in 1..NPix |-> 7])

NormProfile ==
    [driver |-> "GTiff", dtype |-> "uint16", count |-> 1,
     height |-> NormShape[1], width |-> NormShape[2],
     transform |-> <<"transform", "N">>, crs |-> <<"crs", "N">>]

NormInputs ==
    LET rgb == {[red |-> NormBand(r), green |-> g, blue |-> b, profile |-> NormProfile] :
                    r \in [1..NPix -> PixelValues], g \in {RampBand}, b \in {FlatBand}}
    IN  rgb \cup {Update(bs, ("qa" :> NormBand(q))) :
                    bs \in rgb, q \in [1..NPix -> {0, 1}]}

InitNorm == \E bs \in NormInputs : InitWith([r \in Roles |-> "none"], bs, "loaded")

NextNorm ==
    \E method \in Methods, p \in PercentileInputs, dg \in [1..3 -> DegenerateOut] :
        /\ method # "rescaling" => p = DefaultPercentile
        /\ create_rgb_stack(method, p, dg)

SpecNorm == InitNorm /\ [][NextNorm]_vars

-----------------------------------------------------------------------------
(* Properties of get_bands (SpecLoad) *)

\* C4 as stated: a role whose file exists when it is processed is not
\* requested; a role whose file does not exist is requested exactly once and
\* its file is created; over all calls each role is requested at most once.
C4_EachRoleRetrievedOnce ==
    gbObs.called =>
        /\ \A r \in gbObs.done :
              /\ gbObs.pre[r] # "none" => gbObs.reqs[r] = 0
              /\ gbObs.pre[r] = "none" => gbObs.reqs[r] = 1 /\ cache[r] # "none"
        /\ \A r \in Roles : netLog[r].reqs <= 1

\* C4 as amended: a role whose file exists when it is processed is not
\* requested and its file is left as it is; a role whose file does not exist
\* is requested exactly once, and its file is created exactly when the request
\* returns a response; roles not processed are not requested; over all calls
\* each role's response is stored at most once, and every request that was
\* not stored was a request that raised.
C4_CacheEntry ==
    gbObs.called =>
        /\ \A r \in gbObs.done :
              /\ gbObs.pre[r] # "none" => gbObs.reqs[r] = 0 /\ cache[r] = gbObs.pre[r]
              /\ gbObs.pre[r] = "none" =>
                    /\ gbObs.reqs[r] = 1
                    /\ (cache[r] # "none") <=> (gbObs.resp[r] = 1)
        /\ \A r \in Roles \ gbObs.done :
              gbObs.reqs[r] = 0 /\ cache[r] = gbObs.pre[r]
        /\ \A r \in Roles :
              /\ netLog[r].resp <= 1
              /\ netLog[r].resp = (IF cache[r] = "none" THEN 0 ELSE 1)
              /\ netLog[r].reqs <= runs

\* A later call that found one role cached and fetched and stored another.
C4_Witness ==
    /\ gbObs.called
    /\ runs >= 2
    /\ \E r, q \in gbObs.done :
          /\ gbObs.pre[r] # "none" /\ gbObs.reqs[r] = 0
          /\ gbObs.pre[q] = "none" /\ gbObs.reqs[q] = 1 /\ cache[q] # "none"

\* C5: every array a get_bands call returns comes from the scene its
\* band_urls name, and all returned arrays have one shape.
C5_SameSceneSameShape ==
    (gbObs.called /\ gbObs.failedRole = "none") =>
        /\ \A r \in gbObs.keys : gbObs.origin[r] = gbObs.urlScene
        /\ \A r, q \in gbObs.keys : bands[r].shape = bands[q].shape

\* C10: after a call aborted at a role because its source was unreachable or
\* returned non-raster content, no file exists at that role's cache path.
C10_FailedFetchNotCached ==
    (gbObs.called /\ gbObs.net \in {"unreachable", "nonraster"}) =>
        cache[gbObs.failedRole] = "none"

-----------------------------------------------------------------------------
(* Properties of one notebook run (Spec) *)

RGBNames == <<"red", "green", "blue">>

\* The profile get_bands read: that of the first band, red.
ReadProfile == SceneProfile(gbObs.origin["red"])

\* C1: after write_rgb_image, bands['profile'] has the driver, dtype, count
\* and photometric entries it had when get_bands read it.
C1_ProfileUntouchedByWrite ==
    wrObs.called =>
        \A k \in {"driver", "dtype", "count", "photometric"} :
            /\ (k \in DOMAIN bands["profile"]) <=> (k \in DOMAIN ReadProfile)
            /\ k \in DOMAIN ReadProfile => bands["profile"][k] = ReadProfile[k]

\* C2: a call with an unrecognized method fails with a configuration error
\* before any band array is read or normalized.
C2_UnknownMethodIsConfigError ==
    (stObs.called /\ stObs.method \notin {"rescaling", "clahe"}) =>
        /\ pc = "halted"
        /\ err = "ConfigurationError"
        /\ stObs.normalized = 0
        /\ ~stObs.arraysRead

\* C3: a destination file that declares 3 bands has all 3 bands written.
C3_NoPartialFile ==
    (outFile.exists /\ outFile.profile["count"] = 3) =>
        DOMAIN outFile.data = 1..3

\* C9: a rescaling call with a percentile outside (0, 50) fails with a
\* configuration error before any cut point or rescale is computed.
C9_PercentileRangeChecked ==
    (stObs.called /\ stObs.method = "rescaling"
        /\ ~(0 < stObs.percentile /\ stObs.percentile < 50)) =>
        /\ pc = "halted"
        /\ err = "ConfigurationError"
        /\ stObs.cutsComputed = 0
        /\ stObs.normalized = 0

\* The red, green and blue bands get_bands returned differ in shape.
ShapesDiffer ==
    /\ gbObs.called /\ gbObs.failedRole = "none"
    /\ \E r, q \in {"red", "green", "blue"} : bands[r].shape # bands[q].shape

\* C6: when the red, green and blue bands differ in shape, create_rgb_stack
\* halts the run no later than its stack step, no 'rgb' entry is produced and
\* the output file is neither created nor written; with a recognized method
\* and a percentile numpy accepts, the error is the shape mismatch.
C6_ShapeMismatchHalts ==
    (ShapesDiffer /\ stObs.called) =>
        /\ pc = "halted"
        /\ "rgb" \notin DOMAIN bands
        /\ ~wrObs.called
        /\ ~outFile.exists
        /\ (stObs.method \in {"rescaling", "clahe"} /\ stObs.percentile \in 0..100) =>
              err \in {"IndexError", "ValueError:shape"}

\* All three bands were normalized and np.stack refused them.
C6_Witness ==
    /\ ShapesDiffer /\ stObs.called
    /\ stObs.normalized = 3
    /\ err = "ValueError:shape"

\* C7: bands['rgb'] holds the normalized red, green and blue bands at indices
\* 0, 1, 2; after a successful write the file holds channel i at band i + 1,
\* with dtype uint8, count 3, photometric RGB, driver GTiff and the transform
\* and crs of the profile that was read.
C7_ChannelOrderAndProfile ==
    /\ pc \in {"stacked", "written"} =>
          /\ DOMAIN bands["rgb"] = 0..2
          /\ \A i \in 0..2 : \E dg \in DegenerateOut :
                bands["rgb"][i] =
                    NormStep(bands, bands[RGBNames[i + 1]], stObs.method,
                             stObs.percentile, dg).out
    /\ pc = "written" =>
          /\ outFile.exists
          /\ DOMAIN outFile.data = 1..3
          /\ \A i \in 0..2 : outFile.data[i + 1] = bands["rgb"][i]
          /\ outFile.profile["dtype"] = "uint8"
          /\ outFile.profile["count"] = 3
          /\ "photometric" \in DOMAIN outFile.profile
          /\ outFile.profile["photometric"] = "RGB"
          /\ outFile.profile["driver"] = "GTiff"
          /\ outFile.profile["transform"] = ReadProfile["transform"]
          /\ outFile.profile["crs"] = ReadProfile["crs"]

\* A written file whose three channels are pairwise different.
C7_Witness ==
    /\ pc = "written"
    /\ bands["rgb"][0] # bands["rgb"][1]
    /\ bands["rgb"][1] # bands["rgb"][2]
    /\ bands["rgb"][0] # bands["rgb"][2]

-----------------------------------------------------------------------------
(* Properties of percentile rescaling (SpecNorm) *)

\* The pixels the cut points are taken over: those whose qa is not 1, all of
\* them when there is no qa.
StatIndices(band) ==
    {i \in 1..Len(band.pix) : "qa" \in DOMAIN bands => bands["qa"].pix[i] # 1}

\* The k-th smallest (k from 0) of the pixels at indices U, by rank.
OrderStat(pix, U, k) ==
    CHOOSE v \in {pix[i] : i \in U} :
        /\ Cardinality({i \in U : pix[i] < v}) <= k
        /\ k < Cardinality({i \in U : pix[i] <= v})

\* The q-th percentile of the pixels at indices U, linearly interpolated
\* between the two nearest ranks, times 100.
RankCut100(pix, U, q) ==
    LET n  == Cardinality(U)
        lo == ((n - 1) * q) \div 100
        fr == ((n - 1) * q) % 100
        hi == Min(lo + 1, n - 1)
    IN  100 * OrderStat(pix, U, lo)
            + fr * (OrderStat(pix, U, hi) - OrderStat(pix, U, lo))

\* The linear map taking low to 0 and high to 255, clipped outside, truncated.
Stretched(x, low100, high100) ==
    IF 100 * x <= low100 THEN 0
    ELSE IF 100 * x >= high100 THEN 255
    ELSE (255 * (100 * x - low100)) \div (high100 - low100)

\* C8: with method='rescaling' the call raises no error with or without a qa
\* entry, and wherever the cut points are distinct every pixel of the original
\* band, masked or not, is the stretch between the percentile and
\* 100 - percentile cut points of the pixels whose qa is not 1 (of all pixels
\* when there is no qa).
C8_RescaleOverUnmasked ==
    (stObs.called /\ stObs.method = "rescaling" /\ stObs.percentile \in 0..100) =>
        /\ pc = "stacked"
        /\ err = "none"
        /\ \A c \in 0..2 :
              LET band == bands[RGBNames[c + 1]]
                  U    == StatIndices(band)
                  low  == RankCut100(band.pix, U, stObs.percentile)
                  high == RankCut100(band.pix, U, 100 - stObs.percentile)
              IN  (U # {} /\ low < high) =>
                      /\ bands["rgb"][c].shape = band.shape
                      /\ \A j \in 1..Len(band.pix) :
                            bands["rgb"][c].pix[j] = Stretched(band.pix[j], low, high)

\* A red band whose fill pixel holds the sentinel 65535: the mask moves the
\* high cut point, and the masked pixel itself is rescaled (clipped to 255).
C8_Witness ==
    /\ stObs.called /\ stObs.method = "rescaling" /\ stObs.percentile = 2
    /\ pc = "stacked"
    /\ "qa" \in DOMAIN bands
    /\ LET band == bands["red"]
           U    == StatIndices(band)
           All  == 1..Len(band.pix)
       IN  /\ Cardinality(U) >= 2
           /\ RankCut100(band.pix, U, 2) < RankCut100(band.pix, U, 98)
           /\ RankCut100(band.pix, U, 98) < RankCut100(band.pix, All, 98)
           /\ \E j \in All \ U : band.pix[j] = 65535 /\ bands["rgb"][0].pix[j] = 255
           /\ \E j, k \in U : bands["rgb"][0].pix[j] = 0 /\ bands["rgb"][0].pix[k] = 255

====
